---- MODULE Spec2Model ----
(***************************************************************************)
(* Model of @burakbey/result (src/README.md lines 180-343 hold index.ts):  *)
(* the Ok / Err classes, the methods of BaseResult, ResultError, and the   *)
(* constructors ok and err.                                                *)
(*                                                                         *)
(* Result objects live in a heap (a sequence; an object's reference is its *)
(* index), so that object identity (`this`, `new Ok(...)`) is visible.     *)
(* Every method is an operator from the heap, the receiver and the         *)
(* arguments to an outcome: the heap after the call, whether the call      *)
(* returned or threw, the value returned or thrown, and the calls it made  *)
(* to caller-supplied functions, in order.                                 *)
(***************************************************************************)
EXTENDS Integers, Sequences, FiniteSets, TLC

VARIABLES heap, last

vars == <<heap, last>>

\* ---------------------------------------------------------------- bounds

\* Number of Result objects a run may allocate.
MaxObjs == 3

\* ------------------------------------------------------- values and inputs

\* JavaScript's undefined: also what reading a property an object does not
\* have evaluates to.
Undefined == "undefined"

\* Payloads (TSuccess / TError values): undefined, the falsy number 0, and a
\* reference to some object of the caller ("obj": equal means identical).
Payloads == {Undefined, "0", "obj"}

\* Caller-supplied functions (map's fn, match's handlers): the identity, a
\* constant function and a function without fixed point.
Fns ==
  { [p \in Payloads |-> p],
    [p \in Payloads |-> "0"],
    [p \in Payloads |-> CASE p = Undefined -> "0"
                          [] p = "0"       -> "obj"
                          [] OTHER         -> Undefined] }

\* ------------------------------------------------------------- the classes

\* class Ok: constructor(public readonly value). It has no `error` property,
\* so reading .error yields undefined.
Ok(value) == [cls |-> "Ok", value |-> value, error |-> Undefined]

\* class Err: constructor(public readonly error). No `value` property.
Err(error) == [cls |-> "Err", value |-> Undefined, error |-> error]

\* class ResultError extends Error { name = 'ResultError'; constructor(message) }
ResultError(message) == [name |-> "ResultError", message |-> message]

\* ----------------------------------------------------------- outcomes

\* The method returns v, having made `calls`, leaving heap h.
Return(h, v, calls) == [heap |-> h, kind |-> "return", value |-> v, calls |-> calls]

\* The method throws e.
Throw(h, e) == [heap |-> h, kind |-> "throw", value |-> e, calls |-> <<>>]

\* `new C(...)`: allocate obj, return the reference to it.
New(h, obj, calls) == Return(Append(h, obj), Len(h) + 1, calls)

\* One call of a caller-supplied function, as recorded in an outcome.
Call(who, arg) == [fn |-> who, arg |-> arg]

\* ------------------------------------------------------- BaseResult methods

\* isOk(): this instanceof Ok
isOk(h, self) == h[self].cls = "Ok"

\* Faulty isErr: tests for a defined error instead of the class.
isErr_byField(h, self) == h[self].error # Undefined

\* isErr(): this instanceof Err
isErr(h, self) == h[self].cls = "Err"

\* Faulty match: the handlers are exchanged.
match_swapped(h, self, okFn, errFn) ==
  IF isOk(h, self)
    THEN Return(h, errFn[h[self].value], <<Call("err", h[self].value)>>)
    ELSE Return(h, okFn[h[self].error], <<Call("ok", h[self].error)>>)

\* match(options)
match(h, self, okFn, errFn) ==
  IF isOk(h, self)
    THEN Return(h, okFn[h[self].value], <<Call("ok", h[self].value)>>)
    ELSE Return(h, errFn[h[self].error], <<Call("err", h[self].error)>>)

\* Faulty unwrapTuple: the Ok branch fills the error slot.
unwrapTuple_swapped(h, self) ==
  IF isOk(h, self)
    THEN Return(h, <<Undefined, h[self].value>>, <<>>)
    ELSE Return(h, <<Undefined, h[self].error>>, <<>>)

\* unwrapTuple()
unwrapTuple(h, self) ==
  IF isOk(h, self)
    THEN Return(h, <<h[self].value, Undefined>>, <<>>)
    ELSE Return(h, <<Undefined, h[self].error>>, <<>>)

\* Faulty map: an Err's error is passed through fn.
map_errThroughFn(h, self, fn) ==
  IF isOk(h, self)
    THEN New(h, Ok(fn[h[self].value]), <<Call("fn", h[self].value)>>)
    ELSE Return([h EXCEPT ![self].error = fn[h[self].error]], self,
                <<Call("fn", h[self].error)>>)

\* Faulty map: an Ok is updated in place and returned.
map_inPlace(h, self, fn) ==
  IF isOk(h, self)
    THEN Return([h EXCEPT ![self].value = fn[h[self].value]], self,
                <<Call("fn", h[self].value)>>)
    ELSE Return(h, self, <<>>)

\* Faulty map: `new Ok(fn(this.value))` without the isOk test, so that an Err
\* yields an Ok of fn(undefined).
map_noGuard(h, self, fn) ==
  New(h, Ok(fn[h[self].value]), <<Call("fn", h[self].value)>>)

\* map(fn)
map(h, self, fn) ==
  IF isOk(h, self)
    THEN New(h, Ok(fn[h[self].value]), <<Call("fn", h[self].value)>>)
    ELSE Return(h, self, <<>>)

\* Faulty unwrapErr: no guard, an Ok yields its (absent) error property.
unwrapErr_noGuard(h, self) == Return(h, h[self].error, <<>>)

\* unwrapErr()
unwrapErr(h, self) ==
  IF isErr(h, self)
    THEN Return(h, h[self].error, <<>>)
    ELSE Throw(h, ResultError("Called unwrapErr on an Ok value"))

\* Faulty unwrap: throws with unwrapErr's message.
unwrap_wrongMessage(h, self) ==
  IF isOk(h, self)
    THEN Return(h, h[self].value, <<>>)
    ELSE Throw(h, ResultError("Called unwrapErr on an Ok value"))

\* unwrap()
unwrap(h, self) ==
  IF isOk(h, self)
    THEN Return(h, h[self].value, <<>>)
    ELSE Throw(h, ResultError("Called unwrap on an Err value"))

\* Faulty unwrapOr: `this.value || fallback`, a falsy value gives the fallback.
unwrapOr_falsy(h, self, fallback) ==
  IF isOk(h, self) /\ h[self].value \notin {Undefined, "0"}
    THEN Return(h, h[self].value, <<>>)
    ELSE Return(h, fallback, <<>>)

\* Faulty unwrapOr: delegates to unwrap's throwing branch on an Err whose
\* fallback is undefined.
unwrapOr_throws(h, self, fallback) ==
  IF isOk(h, self)
    THEN Return(h, h[self].value, <<>>)
    ELSE IF fallback = Undefined
      THEN Throw(h, ResultError("Called unwrap on an Err value"))
      ELSE Return(h, fallback, <<>>)

\* unwrapOr(fallback)
unwrapOr(h, self, fallback) ==
  IF isOk(h, self)
    THEN Return(h, h[self].value, <<>>)
    ELSE Return(h, fallback, <<>>)

\* ------------------------------------------------------------ constructors

\* ok(value): return new Ok(value)
ok(h, value) == New(h, Ok(value), <<>>)

\* err(error): return new Err(error)
err(h, error) == New(h, Err(error), <<>>)

\* ------------------------------------------------------------ the program

\* What the caller observes of an outcome.
Seen(o) == [kind |-> o.kind, value |-> o.value, calls |-> o.calls]

Init ==
  /\ heap = <<>>
  /\ last = [op |-> "none"]

CallOk ==
  \E v \in Payloads :
    /\ Len(heap) < MaxObjs
    /\ LET o == ok(heap, v) IN
         /\ heap' = o.heap
         /\ last' = [op |-> "ok", arg |-> v, out |-> Seen(o)]

CallErr ==
  \E e \in Payloads :
    /\ Len(heap) < MaxObjs
    /\ LET o == err(heap, e) IN
         /\ heap' = o.heap
         /\ last' = [op |-> "err", arg |-> e, out |-> Seen(o)]

CallIsOk ==
  \E r \in DOMAIN heap :
    /\ heap' = heap
    /\ last' = [op |-> "isOk", self |-> r,
                out |-> Seen(Return(heap, isOk(heap, r), <<>>))]

CallIsErr ==
  \E r \in DOMAIN heap :
    /\ heap' = heap
    /\ last' = [op |-> "isErr", self |-> r,
                out |-> Seen(Return(heap, isErr(heap, r), <<>>))]

CallUnwrap ==
  \E r \in DOMAIN heap :
    LET o == unwrap(heap, r) IN
      /\ heap' = o.heap
      /\ last' = [op |-> "unwrap", self |-> r, out |-> Seen(o)]

CallUnwrapErr ==
  \E r \in DOMAIN heap :
    LET o == unwrapErr(heap, r) IN
      /\ heap' = o.heap
      /\ last' = [op |-> "unwrapErr", self |-> r, out |-> Seen(o)]

CallUnwrapOr ==
  \E r \in DOMAIN heap, fallback \in Payloads :
    LET o == unwrapOr(heap, r, fallback) IN
      /\ heap' = o.heap
      /\ last' = [op |-> "unwrapOr", self |-> r, fallback |-> fallback,
                  out |-> Seen(o)]

CallUnwrapTuple ==
  \E r \in DOMAIN heap :
    LET o == unwrapTuple(heap, r) IN
      /\ heap' = o.heap
      /\ last' = [op |-> "unwrapTuple", self |-> r, out |-> Seen(o)]

CallMap ==
  \E r \in DOMAIN heap, fn \in Fns :
    LET o == map(heap, r, fn) IN
      /\ Len(o.heap) <= MaxObjs
      /\ heap' = o.heap
      /\ last' = [op |-> "map", self |-> r, fn |-> fn, out |-> Seen(o)]

CallMatch ==
  \E r \in DOMAIN heap, okFn \in Fns, errFn \in Fns :
    LET o == match(heap, r, okFn, errFn) IN
      /\ heap' = o.heap
      /\ last' = [op |-> "match", self |-> r, okFn |-> okFn, errFn |-> errFn,
                  out |-> Seen(o)]

Next ==
  \/ CallOk
  \/ CallErr
  \/ CallIsOk
  \/ CallIsErr
  \/ CallUnwrap
  \/ CallUnwrapErr
  \/ CallUnwrapOr
  \/ CallUnwrapTuple
  \/ CallMap
  \/ CallMatch

Spec == Init /\ [][Next]_vars

\* ------------------------------------------------------------- properties

\* The operations that have a receiver.
Methods ==
  {"isOk", "isErr", "unwrap", "unwrapErr", "unwrapOr", "unwrapTuple", "map", "match"}

\* The receiver of the last call.
Self == heap[last.self]

\* A tuple component is the present one when it is not undefined.
Defined(x) == x # Undefined

\* C1: every Result made by ok, err or map is exactly one of Ok and Err:
\* isOk and isErr never agree; a Result fresh from ok(v) is Ok and not Err, one
\* fresh from err(e) is Err and not Ok, whatever the payload; and the isOk and
\* isErr calls the caller makes return these answers.
C1_ExactlyOneOfOkErr ==
  /\ \A r \in DOMAIN heap : isOk(heap, r) # isErr(heap, r)
  /\ last.op = "ok" =>
       /\ heap[last.out.value] = Ok(last.arg)
       /\ isOk(heap, last.out.value) /\ ~isErr(heap, last.out.value)
  /\ last.op = "err" =>
       /\ heap[last.out.value] = Err(last.arg)
       /\ isErr(heap, last.out.value) /\ ~isOk(heap, last.out.value)
  /\ last.op = "isOk" => last.out = Seen(Return(heap, Self.cls = "Ok", <<>>))
  /\ last.op = "isErr" => last.out = Seen(Return(heap, Self.cls = "Err", <<>>))

\* C1 witness: a map on an Ok has just produced an Ok holding undefined, and
\* the heap also holds an Err holding undefined.
C1_Witness ==
  /\ last.op = "map" /\ Self.cls = "Ok"
  /\ heap[last.out.value] = Ok(Undefined)
  /\ \E r \in DOMAIN heap : heap[r] = Err(Undefined)

\* C2: unwrap on an Ok returns its value; on an Err it returns nothing and
\* throws a ResultError, named 'ResultError', whose message says that unwrap was
\* called on an Err value.
C2_Unwrap ==
  last.op = "unwrap" =>
    /\ Self.cls = "Ok" =>
         last.out.kind = "return" /\ last.out.value = Self.value
    /\ Self.cls = "Err" =>
         /\ last.out.kind = "throw"
         /\ last.out.value.name = "ResultError"
         /\ last.out.value.message = "Called unwrap on an Err value"

\* C2 witness: unwrap has thrown on an Err.
C2_Witness ==
  last.op = "unwrap" /\ Self = Err("obj") /\ last.out.kind = "throw"

\* C3: unwrapErr on an Err returns its very error; on an Ok it returns nothing
\* and throws a ResultError whose message says that unwrapErr was called on an
\* Ok value.
C3_UnwrapErr ==
  last.op = "unwrapErr" =>
    /\ Self.cls = "Err" =>
         last.out.kind = "return" /\ last.out.value = Self.error
    /\ Self.cls = "Ok" =>
         /\ last.out.kind = "throw"
         /\ last.out.value.name = "ResultError"
         /\ last.out.value.message = "Called unwrapErr on an Ok value"

\* C3 witness: unwrapErr has thrown on an Ok whose value is undefined.
C3_Witness ==
  last.op = "unwrapErr" /\ Self = Ok(Undefined) /\ last.out.kind = "throw"

\* C4 as claimed: unwrapTuple gives [v, undefined] on ok(v) and [undefined, e]
\* on err(e), and exactly one of the two components is defined.
C4_ExactlyOneDefined ==
  last.op = "unwrapTuple" =>
    /\ last.out.kind = "return"
    /\ Self.cls = "Ok" => last.out.value = <<Self.value, Undefined>>
    /\ Self.cls = "Err" => last.out.value = <<Undefined, Self.error>>
    /\ Defined(last.out.value[1]) # Defined(last.out.value[2])

\* C4 amended: unwrapTuple gives [v, undefined] on ok(v) and [undefined, e] on
\* err(e); the two components are never both defined, and exactly one is
\* defined whenever the payload is not undefined (with an undefined payload
\* neither is).
C4_AtMostOneDefined ==
  last.op = "unwrapTuple" =>
    /\ last.out.kind = "return"
    /\ Self.cls = "Ok" => last.out.value = <<Self.value, Undefined>>
    /\ Self.cls = "Err" => last.out.value = <<Undefined, Self.error>>
    /\ ~(Defined(last.out.value[1]) /\ Defined(last.out.value[2]))
    /\ (Defined(last.out.value[1]) \/ Defined(last.out.value[2]))
         <=> Defined(IF Self.cls = "Ok" THEN Self.value ELSE Self.error)

\* C4 witness: unwrapTuple on ok(undefined) has returned a tuple with no
\* defined component.
C4_Witness ==
  /\ last.op = "unwrapTuple" /\ Self = Ok(Undefined)
  /\ last.out.value = <<Undefined, Undefined>>

\* C5: a map(fn) call on an Ok calls fn once, with the value, and returns an Ok
\* holding fn(value); on an Err it does not call fn and returns an Err holding
\* the receiver's very error.
C5_Map ==
  [][last'.op = "map" =>
       LET o == heap[last'.self]
           out == last'.out
       IN  /\ out.kind = "return"
           /\ o.cls = "Ok" =>
                /\ out.calls = <<Call("fn", o.value)>>
                /\ heap'[out.value] = Ok(last'.fn[o.value])
           /\ o.cls = "Err" =>
                /\ out.calls = <<>>
                /\ heap'[out.value].cls = "Err"
                /\ heap'[out.value].error = o.error]_vars

\* C5 witness: map on an Err holding an object, with a function that would
\* change it, has returned an Err holding that object without calling fn.
C5_Witness ==
  /\ last.op = "map" /\ Self = Err("obj") /\ last.fn["obj"] = Undefined
  /\ last.out.calls = <<>> /\ heap[last.out.value].error = "obj"

\* C6: match calls exactly one handler, once: ok with the value on an Ok, err
\* with the error on an Err, and returns what that handler returned.
C6_Match ==
  last.op = "match" =>
    /\ last.out.kind = "return"
    /\ Len(last.out.calls) = 1
    /\ Self.cls = "Ok" =>
         /\ last.out.calls = <<Call("ok", Self.value)>>
         /\ last.out.value = last.okFn[Self.value]
    /\ Self.cls = "Err" =>
         /\ last.out.calls = <<Call("err", Self.error)>>
         /\ last.out.value = last.errFn[Self.error]

\* C6 witness: match has run the err handler where the two handlers disagree.
C6_Witness ==
  /\ last.op = "match" /\ Self.cls = "Err"
  /\ last.okFn[Self.error] # last.errFn[Self.error]
  /\ last.out.value = last.errFn[Self.error]

\* C7: unwrapOr never throws; on an Ok it returns the value whatever the
\* fallback, on an Err the fallback whatever the error.
C7_UnwrapOr ==
  last.op = "unwrapOr" =>
    /\ last.out.kind = "return"
    /\ Self.cls = "Ok" => last.out.value = Self.value
    /\ Self.cls = "Err" => last.out.value = last.fallback

\* C7 witness: unwrapOr on an Ok holding the falsy 0 has returned 0 and not the
\* fallback.
C7_Witness ==
  /\ last.op = "unwrapOr" /\ Self = Ok("0") /\ last.fallback = "obj"
  /\ last.out.value = "0"

\* C8: no call, returning or throwing, changes an existing Result: every
\* object keeps the class and the payload it was constructed with.
C8_Immutable ==
  [][\A r \in DOMAIN heap : r \in DOMAIN heap' /\ heap'[r] = heap[r]]_vars

\* C8 witness: an unwrap has thrown on the first of three Results, an Err, the
\* last one being an Ok.
C8_Witness ==
  /\ last.op = "unwrap" /\ last.self = 1 /\ last.out.kind = "throw"
  /\ Len(heap) = 3 /\ heap[3].cls = "Ok"

C10_ThrowsIffMisuse ==
  last.op # "none" =>
    /\ last.out.kind \in {"return", "throw"}
    /\ last.out.kind = "throw" <=>
         /\ last.op \in Methods
         /\ \/ last.op = "unwrap" /\ Self.cls = "Err"
            \/ last.op = "unwrapErr" /\ Self.cls = "Ok"
    /\ last.out.kind = "throw" => last.out.value.name = "ResultError"

\* C10 witness: unwrapOr with an undefined fallback has returned on an Err.
C10_Witness ==
  /\ last.op = "unwrapOr" /\ Self.cls = "Err" /\ last.fallback = Undefined
  /\ last.out.kind = "return"

====
